---- MODULE Spec2Model ----
(***************************************************************************)
(* The advisory cycle of the Incapsula Terraform provider: the configure   *)
(* step (Provider.ConfigureContextFunc) runs getLLMSuggestions, which      *)
(* collects the declared inventory, dispatches the advisory tasks to the   *)
(* reasoning agent (runDiagnostics, or the goroutine fan-out               *)
(* runDiagnosticsParallel), aggregates their texts and emits one           *)
(* diagnostic; then the provider client is configured.                     *)
(*                                                                         *)
(* Two revisions of provider.go are in the tree: src/incapsula/provider.go *)
(* (file = "provider") and src/unnamed/part_000 (file = "part000").        *)
(* Strings are sequences of one-character strings.                         *)
(***************************************************************************)
EXTENDS Integers, Sequences, FiniteSets, TLC

VARIABLES
    file,          \* which revision of provider.go is built
    discipline,    \* "sequential" (runDiagnostics) or "parallel" (runDiagnosticsParallel)
    emitter,       \* "createResponse", "createHtmlReport" or "inline" (part000's runDiagnostics)
    pc,            \* position of the configure step's thread
    cwdErr,        \* "unset", "nil" or "err": the error os.Getwd returned
    resources,     \* []TfResource collected from the state snapshot
    tfText,        \* allResourcesFromFiles
    docs,          \* text of the documentation tree
    notes,         \* "unset", or the release-notes text (part000)
    idx,           \* sequential: index of the next task statement of runDiagnostics
    call,          \* per task: state of its reasoning-agent call
    agentText,     \* per task: the text the agent call returned
    agentErr,      \* per task: whether the agent call returned an error
    ret,           \* per task: the string the task function returned
    answer,        \* the aggregated report (runDiagnostics' answer / rowAnswer)
    wg,            \* sync.WaitGroup counter
    results,       \* buffered channel of strings, in arrival order
    closed,        \* results has been closed
    answers,       \* the slice filled by the drain loop
    sendOrder,     \* tasks in the order they sent to results
    htmlCall,      \* state of getHtmlContent's agent call
    htmlFile,      \* text returned by getHtmlContent
    link,          \* what saveHtmlToFile returned
    diags,         \* diag.Diagnostics returned by getLLMSuggestions
    client,        \* "unset", "client" or "nil": what providerConfigure returned
    disk,          \* what the collectors find on disk during this cycle
    logs,          \* the "[Error]" lines the collectors wrote with log.Printf
    stateAttrs,    \* allResourcesFromState: the attribute maps of all instances
    prompt,        \* per task: the question handed to the agent, <<>> before the call
    ncalls,        \* per task: number of reasoning-agent calls issued
    remote,        \* the resources the remote backend holds
    listings,      \* number of remote-listing invocations of the tool-augmented call
    paths          \* execution_dir, and the paths computed from it so far

vars == <<file, discipline, emitter, pc, cwdErr, resources, tfText, docs, notes,
          idx, call, agentText, agentErr, ret, answer, wg, results, closed,
          answers, sendOrder, htmlCall, htmlFile, link, diags, client,
          disk, logs, stateAttrs, prompt, ncalls, remote, listings, paths>>

----------------------------------------------------------------------------
(* Bounds and input sets *)

MaxTextLen == 1

\* Bounds of the state snapshots and directories the collectors are run on.
MaxResources == 2
MaxInstances == 1
MaxFiles == 2

\* Bound of the length of the configured execution directory.
MaxDirLen == 2

\* Bound of the listing invocations (pages) of one tool-augmented call.
MaxListings == 2

Alphabet == {"a"}

NL == <<"\n">>

RECURSIVE StringsUpTo(_)
StringsUpTo(n) ==
    IF n = 0 THEN {<<>>}
    ELSE LET shorter == StringsUpTo(n - 1)
         IN  shorter \cup {Append(s, c) : s \in {x \in shorter : Len(x) = n - 1}, c \in Alphabet}

Texts == StringsUpTo(MaxTextLen)

----------------------------------------------------------------------------
(* Tasks *)

Missing  == "getMissingResources"
General  == "getGeneralTFBestPractices"
Replace  == "getImpervaResourceReplaceSuggestions"
Features == "getImpervaNewFeaturesSuggestions"

Tasks == {Missing, General, Replace, Features}

\* The canonical task-declaration order.
TaskOrder == <<Missing, General, Replace, Features>>

\* The task statements of runDiagnostics, in source order.  In provider.go the
\* call of getImpervaResourceReplaceSuggestions is commented out.
SeqTasks ==
    IF file = "provider" THEN <<Missing, General, Features>>
    ELSE <<Missing, General, Replace, Features>>

\* The goroutines runDiagnosticsParallel starts.
ParTasks == {Missing, General, Replace, Features}

Range(s) == {s[i] : i \in 1..Len(s)}

Dispatched == IF discipline = "sequential" THEN Range(SeqTasks) ELSE ParTasks

----------------------------------------------------------------------------
(* String helpers *)

RECURSIVE Join(_, _)
\* strings.Join(elems, sep)
Join(elems, sep) ==
    IF Len(elems) = 0 THEN <<>>
    ELSE IF Len(elems) = 1 THEN elems[1]
    ELSE elems[1] \o sep \o Join(Tail(elems), sep)

IsSubstring(s, r) ==
    \E i \in 0..(Len(r) - Len(s)) : SubSeq(r, i + 1, i + Len(s)) = s

RECURSIVE ReplaceAll(_, _, _)
\* strings.ReplaceAll for a one-character pattern
ReplaceAll(s, old, new) ==
    IF s = <<>> THEN <<>>
    ELSE (IF Head(s) = old THEN new ELSE <<Head(s)>>) \o ReplaceAll(Tail(s), old, new)

escapeBraces(s) == ReplaceAll(ReplaceAll(s, "{", <<"{", "{">>), "}", <<"}", "}">>)

----------------------------------------------------------------------------
(* Inventory collectors *)

\* A state snapshot on disk: status "unreadable" (os.Open fails), "malformed"
\* (the JSON decoder fails, leaving what it decoded so far) or "ok", with the
\* decoded resources: a sequence of [type, instances], each instance the kind
\* and value of its "id" attribute.
IdString(v) == [kind |-> "string", val |-> v]
IdNumber    == [kind |-> "number", val |-> <<"7">>]
IdMissing   == [kind |-> "missing", val |-> <<>>]

StateFile(status, rs) == [status |-> status, resources |-> rs]

\* A variant of InstanceRecords that keeps every instance, whatever its id.
InstanceRecordsAll(type, instances) ==
    [i \in 1..Len(instances) |-> [Type |-> type, Id |-> instances[i].val]]

\* The inner loop of getAllResourcesTypeAndId:
\* if id, ok := instance.Attributes["id"]; ok { if idStr, isStr := id.(string); isStr { append } }
RECURSIVE InstanceRecords(_, _)
InstanceRecords(type, instances) ==
    IF instances = <<>> THEN <<>>
    ELSE (IF Head(instances).kind = "string"
          THEN <<[Type |-> type, Id |-> Head(instances).val]>>
          ELSE <<>>) \o InstanceRecords(type, Tail(instances))

RECURSIVE ResourceRecords(_)
ResourceRecords(rs) ==
    IF rs = <<>> THEN <<>>
    ELSE InstanceRecords(Head(rs).type, Head(rs).instances) \o ResourceRecords(Tail(rs))

\* A variant of getAllResourcesTypeAndId that walks whatever was decoded
\* although the decoder failed.
getAllResourcesTypeAndIdPartial(state) ==
    IF state.status = "unreadable" THEN <<>> ELSE ResourceRecords(state.resources)

\* getAllResourcesTypeAndId(statePath)
getAllResourcesTypeAndId(state) ==
    IF state.status # "ok" THEN <<>> ELSE ResourceRecords(state.resources)

RECURSIVE AllInstances(_)
AllInstances(rs) ==
    IF rs = <<>> THEN <<>> ELSE Head(rs).instances \o AllInstances(Tail(rs))

\* getAllResourcesFromState(statePath)
getAllResourcesFromState(state) ==
    IF state.status # "ok" THEN <<>> ELSE AllInstances(state.resources)

OpenError   == "[Error] Unable to open state file"
DecodeError == "[Error] Unable to decode state file"

\* The log.Printf calls of getAllResourcesTypeAndId and getAllResourcesFromState
StateLogs(state) ==
    IF state.status = "unreadable" THEN <<OpenError>>
    ELSE IF state.status = "malformed" THEN <<DecodeError>>
    ELSE <<>>

\* A file on disk: readable with a content, or unreadable.
Readable(content) == [ok |-> TRUE, content |-> content]
Unreadable        == [ok |-> FALSE, content |-> <<>>]

\* What filepath.Glob(dir/*.tf) returns: an error, or the matching files in
\* lexical order.
Glob(err, files) == [err |-> err, files |-> files]

\* A variant of ConcatTfFiles that gives up at the first unreadable file.
RECURSIVE ConcatTfFilesStop(_)
ConcatTfFilesStop(files) ==
    IF files = <<>> THEN <<>>
    ELSE IF ~Head(files).ok THEN <<>>
    ELSE Head(files).content \o NL \o ConcatTfFilesStop(Tail(files))

\* The loop of getAllResourcesFromTfFiles:
\* src, err := ioutil.ReadFile(file); if err != nil { continue }; content += string(src) + "\n"
RECURSIVE ConcatTfFiles(_)
ConcatTfFiles(files) ==
    IF files = <<>> THEN <<>>
    ELSE (IF Head(files).ok THEN Head(files).content \o NL ELSE <<>>)
         \o ConcatTfFiles(Tail(files))

\* getAllResourcesFromTfFiles(dir); the caller drops the error
getAllResourcesFromTfFiles(glob) ==
    IF glob.err THEN <<>> ELSE ConcatTfFiles(glob.files)

\* readAndConcatWebsiteFiles(root): the first error ends the walk and drops
\* everything read so far; the caller drops the error.
readAndConcatWebsiteFiles(files) ==
    IF \E i \in 1..Len(files) : ~files[i].ok THEN <<>>
    ELSE Join([i \in 1..Len(files) |-> files[i].content], <<>>)

\* What the collectors find on disk: the state snapshot, the result of the
\* *.tf glob of the execution directory, the files of the documentation tree
\* in walk order.  One disk where every read succeeds, one where reads fail.
GoodDisk ==
    [state   |-> StateFile("ok", <<[type |-> <<"s">>,
                                    instances |-> <<IdString(<<"4", "2">>), IdMissing>>]>>),
     tf      |-> Glob(FALSE, <<Readable(<<"a">>)>>),
     website |-> <<Readable(<<"a">>)>>]

BadDisk ==
    [state   |-> StateFile("unreadable", <<>>),
     tf      |-> Glob(FALSE, <<Unreadable, Readable(<<"a">>)>>),
     website |-> <<Readable(<<"a">>), Unreadable>>]

Disks == {GoodDisk, BadDisk}

\* The disks the collectors are exercised on: every snapshot, glob result and
\* documentation tree within the bounds, each on an otherwise good disk.
SeqsUpTo(S, n) == UNION {[1..k -> S] : k \in 0..n}

Types == {<<"s">>, <<"r">>}

InstanceIds == {IdString(<<"1">>), IdString(<<"2">>), IdNumber, IdMissing}

SnapshotResources ==
    SeqsUpTo([type : Types, instances : SeqsUpTo(InstanceIds, MaxInstances)], MaxResources)

Snapshots ==
    {StateFile(st, rs) : st \in {"ok", "malformed"}, rs \in SnapshotResources}
    \cup {StateFile("unreadable", <<>>)}

Files == {Unreadable, Readable(<<"a">>), Readable(<<"b">>)}

Globs == {Glob(FALSE, fs) : fs \in SeqsUpTo(Files, MaxFiles)} \cup {Glob(TRUE, <<>>)}

CollectDisks ==
    {[GoodDisk EXCEPT !.state = st] : st \in Snapshots}
    \cup {[GoodDisk EXCEPT !.tf = g] : g \in Globs}
    \cup {[GoodDisk EXCEPT !.website = w] : w \in SeqsUpTo(Files, MaxFiles)}

----------------------------------------------------------------------------
(* Paths: d.Get("execution_dir") and what is read and written under it *)

Slash == "/"

\* The values of execution_dir: strings of directory-name characters and
\* separators.
RECURSIVE PathsUpTo(_)
PathsUpTo(n) ==
    IF n = 0 THEN {<<>>}
    ELSE LET shorter == PathsUpTo(n - 1)
         IN  shorter \cup {Append(q, c) : q \in {x \in shorter : Len(x) = n - 1},
                                          c \in {"d", Slash}}

Dirs == PathsUpTo(MaxDirLen)

SomeDir == <<"d", Slash>>

\* os.Getwd()
Cwd == <<Slash, "w">>

Dot == <<".">>

\* filepath.Clean for paths without "." and ".." elements: separators that
\* follow a separator are dropped, and so is a trailing separator unless the
\* path is the root; the empty path becomes ".".
RECURSIVE Squeeze(_)
Squeeze(q) ==
    IF Len(q) < 2 THEN q
    ELSE IF q[1] = Slash /\ q[2] = Slash THEN Squeeze(Tail(q))
    ELSE <<q[1]>> \o Squeeze(Tail(q))

Clean(q) ==
    LET sq == Squeeze(q)
    IN  IF sq = <<>> THEN Dot
        ELSE IF Len(sq) > 1 /\ sq[Len(sq)] = Slash THEN SubSeq(sq, 1, Len(sq) - 1)
        ELSE sq

\* filepath.Join(a, b): empty elements are ignored, the rest joined by a
\* separator and cleaned.
FilepathJoin(a, b) ==
    IF a = <<>> THEN Clean(b) ELSE Clean(a \o <<Slash>> \o b)

\* dir + "terraform.tfstate"
StatePath(dir) == dir \o <<"terraform.tfstate">>

\* filepath.Join(dir, "*.tf")
GlobPattern(dir) == FilepathJoin(dir, <<"*.tf">>)

\* saveHtmlToFile: if executionDir == "" { executionDir, _ = os.Getwd() };
\* filepath.Join(executionDir, "llm_suggestion.html")
HtmlPath(dir) ==
    FilepathJoin(IF dir = <<>> THEN Cwd ELSE dir, <<"llm_suggestion.html">>)

----------------------------------------------------------------------------
(* The reasoning-agent client (queryAgent, answerWithTools) *)

\* What one agent call can return: a text and an error flag.  A failed call
\* returns a partial or empty text together with the error.
AgentOutcomes == [text : Texts, err : BOOLEAN]

\* The sites the remote backend can hold, as {type, id} pairs.
RemoteSites == {[Type |-> <<"s">>, Id |-> <<"1">>], [Type |-> <<"s">>, Id |-> <<"2">>]}

Remotes == SUBSET RemoteSites

SomeRemote == {[Type |-> <<"s">>, Id |-> <<"1">>]}

\* Every task function ends with  answer, _ := queryAgent(question); return answer
TaskResult(text, err) == text

\* A variant of AgentCallsPerTask: a second call in the task function.
AgentCallsPerTaskTwice == 1 + 1

\* Every task function calls the agent once: one queryAgent or
\* answerWithTools statement, in no loop.
AgentCallsPerTask == 1

----------------------------------------------------------------------------
(* The prompts of the tasks *)

RECURSIVE SprintRecords(_)
SprintRecords(rs) ==
    IF rs = <<>> THEN <<>>
    ELSE <<"{">> \o Head(rs).Type \o <<" ">> \o Head(rs).Id \o <<"}">>
         \o (IF Len(rs) > 1 THEN <<" ">> ELSE <<>>) \o SprintRecords(Tail(rs))

\* fmt.Sprintf("%v", resources) of a []TfResource
Sprintv(rs) == <<"[">> \o SprintRecords(rs) \o <<"]">>

\* getNewFeatures()
getNewFeatures == <<"site level managed certificate">>

\* The prompt of getMissingResources for the inventory rs.
MissingQuestion(rs) ==
    IF file = "provider" THEN <<"compare the sites: ">> \o Sprintv(rs)
    ELSE <<"fetch all the sites">>

\* The prompt of getGeneralTFBestPractices for the configuration text tf.
GeneralQuestion(tf) == <<"best practices: ">> \o tf

\* The prompt of getImpervaResourceReplaceSuggestions for the configuration
\* text tf and the documentation text dc: only tf is formatted into it.
ReplaceQuestion(tf, dc) == <<"provider correctness: ">> \o tf

\* The prompt of getImpervaNewFeaturesSuggestions for the documentation text,
\* the feature list, the configuration text and the release notes.
FeaturesQuestion(dc, features, tf, releaseNotes) ==
    IF file = "provider"
    THEN <<"new features, docs: ">> \o dc \o <<" features: ">> \o features
         \o <<" code: ">> \o tf \o <<"\n\n">>
    ELSE <<"whats your name: ">> \o releaseNotes

\* The release notes fetched so far.
ReleaseNotesText == IF notes = "unset" THEN <<>> ELSE notes

\* A variant of Question in which a later task is also given the answer of
\* the inventory-diff task.
QuestionChained(t) ==
    CASE t = Missing  -> MissingQuestion(resources)
      [] t = General  -> GeneralQuestion(tfText \o ret[Missing])
      [] t = Replace  -> ReplaceQuestion(tfText \o ret[Missing], docs)
      [] t = Features -> FeaturesQuestion(docs, getNewFeatures, tfText \o ret[Missing],
                                          ReleaseNotesText)

\* The question each task function builds from the arguments the orchestrator
\* passes.  The fixed text of a prompt is one element; what is formatted into
\* it follows, character by character.
Question(t) ==
    CASE t = Missing  -> MissingQuestion(resources)
      [] t = General  -> GeneralQuestion(tfText)
      [] t = Replace  -> ReplaceQuestion(tfText, docs)
      [] t = Features -> FeaturesQuestion(docs, getNewFeatures, tfText, ReleaseNotesText)

----------------------------------------------------------------------------
(* Aggregation and emission *)

\* A variant of SeqAppend that assigns instead of appending.
SeqAppendAssign(acc, text) ==
    IF file = "provider" THEN NL \o text ELSE text

\* One task statement of runDiagnostics.
SeqAppend(acc, text) ==
    IF file = "provider" THEN acc \o NL \o text ELSE acc \o text

\* A variant of WgAdd that registers one goroutine too few.
WgAddShort == 4 - 1

\* Number of goroutines registered with the WaitGroup: wg.Add(4)
WgAdd == 4

\* A variant of ChanCap: a channel with one place less than there are senders.
ChanCapShort == 4 - 1

\* Capacity of the results channel: make(chan string, 4)
ChanCap == 4

Warning == "Warning"

Diagnostic(detail) ==
    [Severity |-> Warning, Summary |-> "Best Practice Suggestion", Detail |-> detail]

\* A variant of createResponse that reports at error severity.
createResponseError(text) ==
    <<[Severity |-> "Error", Summary |-> "Best Practice Suggestion", Detail |-> text]>>

\* createResponse(d, answer)
createResponse(text) == <<Diagnostic(text)>>

FailedToSave == <<"Failed to save HTML file">>

\* saveHtmlToFile: the file URL, or the failure message when the write fails
saveHtmlToFile(writeOk) ==
    IF writeOk THEN <<"file://", "llm_suggestion.html">> ELSE FailedToSave

\* getAiAnswer(link)
getAiAnswer(l) == <<"[Robot AI Assistant]">> \o l

----------------------------------------------------------------------------
(* Initial states *)

\* The builds: provider.go as written, provider.go with its commented-out
\* alternatives enabled, and part_000 as written.
Builds ==
    {<<"provider", d, e>> : d \in {"sequential", "parallel"},
                            e \in {"createResponse", "createHtmlReport"}}
    \cup {<<"part000", "sequential", "inline">>}

InitCycle ==
    /\ \E b \in Builds : file = b[1] /\ discipline = b[2] /\ emitter = b[3]
    /\ pc = "configure"
    /\ cwdErr = "unset"
    /\ resources = <<>>
    /\ tfText = <<>>
    /\ docs = <<>>
    /\ notes = "unset"
    /\ idx = 1
    /\ call = [t \in Tasks |-> "idle"]
    /\ agentText = [t \in Tasks |-> <<>>]
    /\ agentErr = [t \in Tasks |-> FALSE]
    /\ ret = [t \in Tasks |-> <<>>]
    /\ answer = <<>>
    /\ wg = 0
    /\ results = <<>>
    /\ closed = FALSE
    /\ answers = <<>>
    /\ sendOrder = <<>>
    /\ htmlCall = "idle"
    /\ htmlFile = <<>>
    /\ link = <<>>
    /\ diags = <<>>
    /\ client = "unset"
    /\ logs = <<>>
    /\ stateAttrs = <<>>
    /\ prompt = [t \in Tasks |-> <<>>]
    /\ ncalls = [t \in Tasks |-> 0]
    /\ listings = 0

NoPaths(dir) == [dir |-> dir, state |-> <<>>, glob |-> <<>>, html |-> <<>>]

Init ==
    /\ InitCycle
    /\ disk \in Disks
    /\ remote = SomeRemote
    /\ paths = NoPaths(SomeDir)

InitCollect ==
    /\ InitCycle
    /\ disk \in CollectDisks
    /\ remote = SomeRemote
    /\ paths = NoPaths(SomeDir)

InitRemote ==
    /\ InitCycle
    /\ disk \in Disks
    /\ remote \in Remotes
    /\ paths = NoPaths(SomeDir)

InitPaths ==
    /\ InitCycle
    /\ discipline = "sequential"
    /\ disk = GoodDisk
    /\ remote = SomeRemote
    /\ \E dir \in Dirs : paths = NoPaths(dir)

----------------------------------------------------------------------------
(* getLLMSuggestions *)

\* A variant of GetwdNextPc that logs the error and carries on.
GetwdNextPcLogOnly(ok) == "collect"

\* if err != nil { log.Fatalf(...) }: log.Fatalf ends the process.
GetwdNextPc(ok) == IF ok THEN "collect" ELSE "exited"

\* cwd, err := os.Getwd()
Getwd ==
    /\ pc = "configure"
    /\ \E ok \in BOOLEAN :
          /\ cwdErr' = IF ok THEN "nil" ELSE "err"
          /\ pc' = GetwdNextPc(ok)
    /\ UNCHANGED <<paths, disk, remote, listings, logs, stateAttrs, prompt, ncalls, file, discipline, emitter, resources, tfText, docs, notes, idx,
                   call, agentText, agentErr, ret, answer, wg, results, closed,
                   answers, sendOrder, htmlCall, htmlFile, link, diags, client>>

\* The collector calls of getLLMSuggestions; their errors are logged or dropped.
Collect ==
    /\ pc = "collect"
    /\ paths' = [paths EXCEPT !.state = StatePath(paths.dir), !.glob = GlobPattern(paths.dir)]
    /\ stateAttrs' = getAllResourcesFromState(disk.state)
    /\ resources' = getAllResourcesTypeAndId(disk.state)
    /\ logs' = StateLogs(disk.state) \o StateLogs(disk.state)
    /\ tfText' = getAllResourcesFromTfFiles(disk.tf)
    /\ docs' = IF file = "provider" THEN readAndConcatWebsiteFiles(disk.website)
                                   ELSE <<>>
    /\ pc' = "dispatch"
    /\ UNCHANGED <<disk, remote, listings, prompt, ncalls, file, discipline, emitter, cwdErr, notes, idx,
                   call, agentText, agentErr, ret, answer, wg, results, closed,
                   answers, sendOrder, htmlCall, htmlFile, link, diags, client>>

----------------------------------------------------------------------------
(* runDiagnostics: the tasks one after another *)

SeqNext == IF idx <= Len(SeqTasks) THEN SeqTasks[idx] ELSE "none"

\* part000: getImpervaNewFeaturesSuggestions first calls getLastMonthsReleaseNotes,
\* which ends the process with log.Fatalf when the page load, the link JSON or
\* the marshalling fails.
ReleaseNotes ==
    /\ pc = "dispatch"
    /\ discipline = "sequential"
    /\ file = "part000"
    /\ SeqNext = Features
    /\ notes = "unset"
    /\ \E ok \in BOOLEAN :
          /\ notes' = IF ok THEN <<"a">> ELSE "unset"
          /\ pc' = IF ok THEN pc ELSE "exited"
    /\ UNCHANGED <<paths, disk, remote, listings, logs, stateAttrs, prompt, ncalls, file, discipline, emitter, cwdErr, resources, tfText, docs, idx,
                   call, agentText, agentErr, ret, answer, wg, results, closed,
                   answers, sendOrder, htmlCall, htmlFile, link, diags, client>>

\* The next task builds its prompt and calls the agent.
SeqCall ==
    /\ pc = "dispatch"
    /\ discipline = "sequential"
    /\ SeqNext \in Tasks
    /\ call[SeqNext] = "idle"
    /\ (file = "part000" /\ SeqNext = Features) => notes # "unset"
    /\ call' = [call EXCEPT ![SeqNext] = "calling"]
    /\ prompt' = [prompt EXCEPT ![SeqNext] = Question(SeqNext)]
    /\ ncalls' = [ncalls EXCEPT ![SeqNext] = @ + AgentCallsPerTask]
    /\ UNCHANGED <<paths, disk, remote, listings, logs, stateAttrs, file, discipline, emitter, pc, cwdErr, resources, tfText, docs, notes,
                   idx, agentText, agentErr, ret, answer, wg, results, closed,
                   answers, sendOrder, htmlCall, htmlFile, link, diags, client>>

\* The agent call returns, the task returns its answer, and runDiagnostics
\* appends it; after the last task the report is complete.
SeqReturn ==
    /\ pc = "dispatch"
    /\ discipline = "sequential"
    /\ SeqNext \in Tasks
    /\ call[SeqNext] = "calling"
    /\ \E o \in AgentOutcomes :
          /\ agentText' = [agentText EXCEPT ![SeqNext] = o.text]
          /\ agentErr' = [agentErr EXCEPT ![SeqNext] = o.err]
          /\ ret' = [ret EXCEPT ![SeqNext] = TaskResult(o.text, o.err)]
          /\ answer' = SeqAppend(answer, TaskResult(o.text, o.err))
    /\ call' = [call EXCEPT ![SeqNext] = "done"]
    /\ idx' = idx + 1
    /\ pc' = IF idx = Len(SeqTasks) THEN "aggregated" ELSE pc
    /\ UNCHANGED <<paths, disk, remote, listings, logs, stateAttrs, prompt, ncalls, file, discipline, emitter, cwdErr, resources, tfText, docs, notes,
                   wg, results, closed, answers, sendOrder,
                   htmlCall, htmlFile, link, diags, client>>

\* A reasoning-agent call that never returns: no timeout bounds the call.
AgentHangs(t) ==
    /\ call[t] = "calling"
    /\ call' = [call EXCEPT ![t] = "hung"]
    /\ UNCHANGED <<paths, disk, remote, listings, logs, stateAttrs, prompt, ncalls, file, discipline, emitter, pc, cwdErr, resources, tfText, docs, notes,
                   idx, agentText, agentErr, ret, answer, wg, results, closed,
                   answers, sendOrder, htmlCall, htmlFile, link, diags, client>>

\* A variant of ListRemote whose capability deletes what it lists.
ListRemoteDeleting ==
    /\ call[Missing] = "calling"
    /\ listings < MaxListings
    /\ listings' = listings + 1
    /\ remote' = {}
    /\ UNCHANGED <<paths, disk, logs, stateAttrs, prompt, ncalls, file, discipline, emitter, pc, cwdErr, resources, tfText, docs, notes,
                   idx, call, agentText, agentErr, ret, answer, wg, results, closed,
                   answers, sendOrder, htmlCall, htmlFile, link, diags, client>>

\* While the tool-augmented call of getMissingResources is out, the agent
\* invokes the remote-listing capability, page by page: a read of the backend.
ListRemote ==
    /\ call[Missing] = "calling"
    /\ listings < MaxListings
    /\ listings' = listings + 1
    /\ UNCHANGED <<paths, disk, remote, logs, stateAttrs, prompt, ncalls, file, discipline, emitter, pc, cwdErr, resources, tfText, docs, notes,
                   idx, call, agentText, agentErr, ret, answer, wg, results, closed,
                   answers, sendOrder, htmlCall, htmlFile, link, diags, client>>

----------------------------------------------------------------------------
(* runDiagnosticsParallel: one goroutine per task *)

\* make(chan string, 4); wg.Add(4); the four go statements
Spawn ==
    /\ pc = "dispatch"
    /\ discipline = "parallel"
    /\ wg' = WgAdd
    /\ call' = [t \in Tasks |-> IF t \in ParTasks THEN "calling" ELSE call[t]]
    /\ prompt' = [t \in Tasks |-> IF t \in ParTasks THEN Question(t) ELSE prompt[t]]
    /\ ncalls' = [t \in Tasks |-> IF t \in ParTasks THEN ncalls[t] + AgentCallsPerTask
                                                    ELSE ncalls[t]]
    /\ pc' = "wait"
    /\ UNCHANGED <<paths, disk, remote, listings, logs, stateAttrs, file, discipline, emitter, cwdErr, resources, tfText, docs, notes,
                   idx, agentText, agentErr, ret, answer, results, closed,
                   answers, sendOrder, htmlCall, htmlFile, link, diags, client>>

\* The task function of goroutine t returns.
GoReturn(t) ==
    /\ discipline = "parallel"
    /\ call[t] = "calling"
    /\ \E o \in AgentOutcomes :
          /\ agentText' = [agentText EXCEPT ![t] = o.text]
          /\ agentErr' = [agentErr EXCEPT ![t] = o.err]
          /\ ret' = [ret EXCEPT ![t] = TaskResult(o.text, o.err)]
    /\ call' = [call EXCEPT ![t] = "returned"]
    /\ UNCHANGED <<paths, disk, remote, listings, logs, stateAttrs, prompt, ncalls, file, discipline, emitter, pc, cwdErr, resources, tfText, docs, notes,
                   idx, answer, wg, results, closed, answers, sendOrder,
                   htmlCall, htmlFile, link, diags, client>>

\* results <- value, then the deferred wg.Done()
GoSend(t) ==
    /\ discipline = "parallel"
    /\ call[t] = "returned"
    /\ Len(results) < ChanCap
    /\ ~closed
    /\ results' = Append(results, ret[t])
    /\ sendOrder' = Append(sendOrder, t)
    /\ wg' = wg - 1
    /\ call' = [call EXCEPT ![t] = "done"]
    /\ UNCHANGED <<paths, disk, remote, listings, logs, stateAttrs, prompt, ncalls, file, discipline, emitter, pc, cwdErr, resources, tfText, docs, notes,
                   idx, agentText, agentErr, ret, answer, closed, answers,
                   htmlCall, htmlFile, link, diags, client>>

\* A variant of WaitClose without wg.Wait(): the channel is closed and drained
\* while goroutines are still running.
WaitCloseEarly ==
    /\ pc = "wait"
    /\ closed' = TRUE
    /\ pc' = "drain"
    /\ UNCHANGED <<paths, disk, remote, listings, logs, stateAttrs, prompt, ncalls, file, discipline, emitter, cwdErr, resources, tfText, docs, notes,
                   idx, call, agentText, agentErr, ret, answer, wg, results,
                   answers, sendOrder, htmlCall, htmlFile, link, diags, client>>

\* wg.Wait() returns when the counter is zero; close(results)
WaitClose ==
    /\ pc = "wait"
    /\ wg = 0
    /\ closed' = TRUE
    /\ pc' = "drain"
    /\ UNCHANGED <<paths, disk, remote, listings, logs, stateAttrs, prompt, ncalls, file, discipline, emitter, cwdErr, resources, tfText, docs, notes,
                   idx, call, agentText, agentErr, ret, answer, wg, results,
                   answers, sendOrder, htmlCall, htmlFile, link, diags, client>>

\* A variant of Drain whose loop body receives and appends nothing.
DrainDropping ==
    /\ pc = "drain"
    /\ results # <<>>
    /\ results' = Tail(results)
    /\ UNCHANGED <<paths, disk, remote, listings, logs, stateAttrs, prompt, ncalls, file, discipline, emitter, pc, cwdErr, resources, tfText, docs, notes,
                   idx, call, agentText, agentErr, ret, answer, wg, closed, answers,
                   sendOrder, htmlCall, htmlFile, link, diags, client>>

\* for r := range results { answers = append(answers, r) }
Drain ==
    /\ pc = "drain"
    /\ results # <<>>
    /\ answers' = Append(answers, Head(results))
    /\ results' = Tail(results)
    /\ UNCHANGED <<paths, disk, remote, listings, logs, stateAttrs, prompt, ncalls, file, discipline, emitter, pc, cwdErr, resources, tfText, docs, notes,
                   idx, call, agentText, agentErr, ret, answer, wg, closed,
                   sendOrder, htmlCall, htmlFile, link, diags, client>>

\* The range loop ends on the closed, empty channel; strings.Join(answers, "\n")
JoinAnswers ==
    /\ pc = "drain"
    /\ results = <<>>
    /\ closed
    /\ answer' = Join(answers, NL)
    /\ pc' = "aggregated"
    /\ UNCHANGED <<paths, disk, remote, listings, logs, stateAttrs, prompt, ncalls, file, discipline, emitter, cwdErr, resources, tfText, docs, notes,
                   idx, call, agentText, agentErr, ret, wg, results, closed,
                   answers, sendOrder, htmlCall, htmlFile, link, diags, client>>

----------------------------------------------------------------------------
(* Emission *)

\* return createResponse(d, rowAnswer)
CreateResponse ==
    /\ pc = "aggregated"
    /\ emitter = "createResponse"
    /\ diags' = createResponse(answer)
    /\ pc' = "providerConfigure"
    /\ UNCHANGED <<paths, disk, remote, listings, logs, stateAttrs, prompt, ncalls, file, discipline, emitter, cwdErr, resources, tfText, docs, notes,
                   idx, call, agentText, agentErr, ret, answer, wg, results, closed,
                   answers, sendOrder, htmlCall, htmlFile, link, client>>

\* getHtmlContent(d, answer) calls the agent with the report to reformat.
HtmlCall ==
    /\ pc = "aggregated"
    /\ emitter \in {"createHtmlReport", "inline"}
    /\ htmlCall = "idle"
    /\ htmlCall' = "calling"
    /\ UNCHANGED <<paths, disk, remote, listings, logs, stateAttrs, prompt, ncalls, file, discipline, emitter, pc, cwdErr, resources, tfText, docs, notes,
                   idx, call, agentText, agentErr, ret, answer, wg, results, closed,
                   answers, sendOrder, htmlFile, link, diags, client>>

HtmlHangs ==
    /\ htmlCall = "calling"
    /\ htmlCall' = "hung"
    /\ UNCHANGED <<paths, disk, remote, listings, logs, stateAttrs, prompt, ncalls, file, discipline, emitter, pc, cwdErr, resources, tfText, docs, notes,
                   idx, call, agentText, agentErr, ret, answer, wg, results, closed,
                   answers, sendOrder, htmlFile, link, diags, client>>

\* getHtmlContent returns; saveHtmlToFile writes the file; the diagnostic
\* carries getAiAnswer(link).
HtmlReturn ==
    /\ htmlCall = "calling"
    /\ htmlCall' = "done"
    /\ \E o \in AgentOutcomes, writeOk \in BOOLEAN :
          /\ htmlFile' = TaskResult(o.text, o.err)
          /\ link' = saveHtmlToFile(writeOk)
          /\ paths' = [paths EXCEPT !.html = HtmlPath(paths.dir)]
          /\ diags' = <<Diagnostic(getAiAnswer(saveHtmlToFile(writeOk)))>>
    /\ pc' = "providerConfigure"
    /\ UNCHANGED <<disk, remote, listings, logs, stateAttrs, prompt, ncalls, file, discipline, emitter, cwdErr, resources, tfText, docs, notes,
                   idx, call, agentText, agentErr, ret, answer, wg, results, closed,
                   answers, sendOrder, client>>

----------------------------------------------------------------------------
(* Provider.ConfigureContextFunc, after getLLMSuggestions returned *)

\* client, _ := providerConfigure(d, terraformVersion); return client, diags
ProviderConfigure ==
    /\ pc = "providerConfigure"
    /\ \E c \in {"client", "nil"} : client' = c
    /\ pc' = "returned"
    /\ UNCHANGED <<paths, disk, remote, listings, logs, stateAttrs, prompt, ncalls, file, discipline, emitter, cwdErr, resources, tfText, docs, notes,
                   idx, call, agentText, agentErr, ret, answer, wg, results, closed,
                   answers, sendOrder, htmlCall, htmlFile, link, diags>>

----------------------------------------------------------------------------

Next ==
    \/ Getwd
    \/ Collect
    \/ ReleaseNotes
    \/ SeqCall
    \/ SeqReturn
    \/ \E t \in Tasks : AgentHangs(t)
    \/ Spawn
    \/ \E t \in Tasks : GoReturn(t)
    \/ \E t \in Tasks : GoSend(t)
    \/ WaitClose
    \/ Drain
    \/ JoinAnswers
    \/ CreateResponse
    \/ HtmlCall
    \/ HtmlHangs
    \/ HtmlReturn
    \/ ProviderConfigure

Spec == Init /\ [][Next]_vars

\* The collectors and the start of the dispatch, over every disk within the
\* bounds.
NextCollect ==
    \/ Getwd
    \/ Collect
    \/ SeqCall
    \/ Spawn

SpecCollect == InitCollect /\ [][NextCollect]_vars

\* The cycle up to the tool-augmented call, with its listing invocations,
\* over every remote inventory.
NextRemote ==
    \/ Getwd
    \/ Collect
    \/ SeqCall
    \/ Spawn
    \/ ListRemote
    \/ SeqReturn

SpecRemote == InitRemote /\ [][NextRemote]_vars

\* The sequential cycle over every execution directory within the bound.
NextPaths ==
    \/ Getwd
    \/ Collect
    \/ ReleaseNotes
    \/ SeqCall
    \/ SeqReturn
    \/ CreateResponse
    \/ HtmlCall
    \/ HtmlReturn

SpecPaths == InitPaths /\ [][NextPaths]_vars

\* runDiagnosticsParallel on its own: the concurrent build that emits with
\* createResponse, on the disk where every read succeeds.  The Go scheduler runs every runnable goroutine, so every
\* step that stays enabled is eventually taken; a call that hangs is a step
\* of the agent, under no such obligation.
InitPar ==
    /\ Init
    /\ discipline = "parallel"
    /\ emitter = "createResponse"
    /\ disk = GoodDisk

NextPar ==
    \/ Getwd
    \/ Collect
    \/ Spawn
    \/ \E t \in Tasks : AgentHangs(t)
    \/ \E t \in Tasks : GoReturn(t)
    \/ \E t \in Tasks : GoSend(t)
    \/ WaitClose
    \/ Drain
    \/ JoinAnswers

FairPar ==
    /\ WF_vars(Getwd)
    /\ WF_vars(Collect)
    /\ WF_vars(Spawn)
    /\ \A t \in Tasks : WF_vars(GoReturn(t))
    /\ \A t \in Tasks : WF_vars(GoSend(t))
    /\ WF_vars(WaitClose)
    /\ WF_vars(Drain)
    /\ WF_vars(JoinAnswers)

SpecPar == InitPar /\ [][NextPar]_vars /\ FairPar

----------------------------------------------------------------------------
(* Properties *)

Terminal == pc \in {"returned", "exited"}

\* The report has been aggregated (rowAnswer / answer is complete).
Aggregated == pc \in {"aggregated", "providerConfigure", "returned"}

Failing == {t \in Dispatched : call[t] \in {"returned", "done"} /\ agentErr[t]}

RECURSIVE SumLen(_)
SumLen(S) ==
    IF S = {} THEN 0
    ELSE LET t == CHOOSE x \in S : TRUE IN Len(agentText[t]) + SumLen(S \ {t})

RECURSIVE SeqReport(_, _)
\* What runDiagnostics computes from the task results r, from accumulator acc.
SeqReport(tasks, acc) ==
    IF tasks = <<>> THEN acc
    ELSE SeqReport(Tail(tasks), SeqAppend(acc, ret[Head(tasks)]))

\* C1: under the concurrent fan-out the aggregated report lists the task texts
\* in the canonical task-declaration order, whatever the completion order.
C1_ParallelCanonicalOrder ==
    (discipline = "parallel" /\ Aggregated)
        => answer = Join([i \in 1..Len(TaskOrder) |-> ret[TaskOrder[i]]], NL)

\* C2: when exactly one task's agent call fails, the aggregated report still
\* contains the unmodified text of every other dispatched task, and none of it
\* is truncated away, in the sequential and in the concurrent discipline.
C2_SiblingsKept ==
    (Aggregated /\ Cardinality(Failing) = 1)
        => /\ \A t \in Dispatched \ Failing : IsSubstring(agentText[t], answer)
           /\ Len(answer) >= SumLen(Dispatched \ Failing)

C2_Witness ==
    /\ pc = "aggregated"
    /\ discipline = "parallel"
    /\ Cardinality(Failing) = 1
    /\ \E t \in Dispatched \ Failing : agentText[t] # <<>>

\* C3: whenever a task's agent call returns an error, the task's segment of
\* the report (what the task function returns) is the empty string, also when
\* the failed call returned a partial text.
C3_FailedSegmentEmpty ==
    \A t \in Tasks : (call[t] \in {"returned", "done"} /\ agentErr[t]) => ret[t] = <<>>

\* C4: runDiagnostics and runDiagnosticsParallel produce the same report from
\* the same task results: same tasks, same order, same separators.
C4_SameReport ==
    Aggregated => answer = SeqReport(SeqTasks, <<>>)

C6_NoTaskFailureAborts ==
    cwdErr = "nil" => pc # "exited"

\* C7: when the execution directory cannot be resolved (os.Getwd returns an
\* error) the cycle aborts before any dispatch: no agent call, plain or
\* tool-augmented, is made and no diagnostic is produced.
C7_AbortBeforeDispatch ==
    cwdErr = "err" =>
        /\ pc = "exited"
        /\ \A t \in Tasks : call[t] = "idle"
        /\ htmlCall = "idle"
        /\ diags = <<>>

C7_Witness == cwdErr = "err" /\ pc = "exited"

\* C8: the advisory engine never gates provisioning: it never ends the
\* process, contributes only warning-severity diagnostics, and every
\* configure step that ends has returned from providerConfigure.
C8_NeverGates ==
    /\ pc # "exited"
    /\ \A i \in 1..Len(diags) : diags[i].Severity = Warning
    /\ (Terminal => client # "unset")

\* C9: an agent call that never returns does not block the cycle: the cycle
\* can always take a further step until the configure step has returned.
C9_HungCallDoesNotBlock ==
    ((\E t \in Tasks : call[t] = "hung") \/ htmlCall = "hung")
        => (Terminal \/ ENABLED Next)

\* C10: createResponse is total and returns exactly one diagnostic, of warning
\* severity, whose detail is the aggregated text unchanged.
C10_EmitTotal ==
    /\ (pc = "aggregated" /\ emitter = "createResponse") => ENABLED CreateResponse
    /\ (emitter = "createResponse" /\ pc \in {"providerConfigure", "returned"})
          => /\ Len(diags) = 1
             /\ diags[1].Severity = Warning
             /\ diags[1].Detail = answer
    /\ \A x \in Texts :
          /\ Len(createResponse(x)) = 1
          /\ createResponse(x)[1].Severity = Warning
          /\ createResponse(x)[1].Detail = x

C10_Witness ==
    /\ emitter = "createResponse"
    /\ pc = "providerConfigure"
    /\ Len(diags) = 1
    /\ IsSubstring(<<"a">>, answer)

----------------------------------------------------------------------------
(* The collectors *)

Collected == pc \notin {"configure", "collect", "exited"}

\* The positions <<resource, instance>> of a snapshot whose id is a string,
\* and the snapshot order on positions.
StringInstances(rs) ==
    UNION {{<<i, j>> : j \in {k \in 1..Len(rs[i].instances) :
                                 rs[i].instances[k].kind = "string"}} :
           i \in 1..Len(rs)}

Before(p, q) == p[1] < q[1] \/ (p[1] = q[1] /\ p[2] < q[2])

Rank(S, p) == Cardinality({q \in S : Before(q, p)}) + 1

\* C11: for a valid state snapshot, the collected inventory holds exactly one
\* record per instance whose id is a string, with the type of the enclosing
\* resource and that id, in snapshot order; instances whose id is missing or
\* not a string contribute nothing.
C11_StringIdInstancesInOrder ==
    (Collected /\ disk.state.status = "ok") =>
        LET rs == disk.state.resources
            S  == StringInstances(rs)
        IN  /\ Len(resources) = Cardinality(S)
            /\ \A p \in S :
                  resources[Rank(S, p)] =
                      [Type |-> rs[p[1]].type, Id |-> rs[p[1]].instances[p[2]].val]

\* A valid snapshot of two resources of different types, one instance with a
\* string id and one without, has been collected into one record.
C11_Witness ==
    /\ Collected
    /\ disk.state.status = "ok"
    /\ Len(disk.state.resources) = 2
    /\ disk.state.resources[1].type # disk.state.resources[2].type
    /\ \E i \in 1..2 : \E j \in 1..Len(disk.state.resources[i].instances) :
          disk.state.resources[i].instances[j].kind # "string"
    /\ Len(resources) = 1

\* C12: when the state snapshot cannot be opened or decoded, both state
\* collectors return an empty inventory, nothing of a partially decoded
\* snapshot, and the cycle goes on to dispatch its tasks with that empty
\* inventory.
C12_BadStateEmptyInventory ==
    (Collected /\ disk.state.status # "ok") =>
        /\ resources = <<>>
        /\ stateAttrs = <<>>
        /\ (pc = "dispatch" /\ \A t \in Tasks : call[t] = "idle") => ENABLED (SeqCall \/ Spawn)
        /\ (file = "provider" /\ call[Missing] # "idle") =>
               prompt[Missing] = <<"compare the sites: ", "[", "]">>

\* A snapshot whose decoding failed after an instance with a string id was
\* decoded has been collected, and the inventory-diff task has been called.
C12_Witness ==
    /\ disk.state.status = "malformed"
    /\ StringInstances(disk.state.resources) # {}
    /\ Collected
    /\ call[Missing] = "calling"

\* The I/O operations of the collectors that fail on a disk: each state
\* collector's open or decode, the glob, each configuration file read, and
\* the read that ends the walk of the documentation tree.
FailedReads(d) ==
    (IF d.state.status # "ok" THEN 2 ELSE 0)
    + (IF d.tf.err THEN 1 ELSE 0)
    + Cardinality({i \in 1..Len(d.tf.files) : ~d.tf.files[i].ok})
    + (IF file = "provider" /\ \E i \in 1..Len(d.website) : ~d.website[i].ok THEN 1 ELSE 0)

\* C13: no collector failure stops the cycle, and every I/O failure of a
\* collector (state open, state decode, configuration glob, configuration
\* file read, documentation read) leaves an empty result for the failed item
\* and one logged diagnostic.
C13_EveryFailureLogged ==
    Collected =>
        /\ disk.state.status # "ok" => resources = <<>> /\ stateAttrs = <<>>
        /\ disk.tf.err => tfText = <<>>
        /\ Len(logs) >= FailedReads(disk)

\* Length of the text the first n discovered files contribute: the content
\* of each readable one and one newline.
RECURSIVE TfOffset(_, _)
TfOffset(fs, n) ==
    IF n = 0 THEN 0
    ELSE TfOffset(fs, n - 1) + (IF fs[n].ok THEN Len(fs[n].content) + 1 ELSE 0)

\* C14: the configuration text is the content of every readable file of the
\* directory, in discovery order, each followed by one newline; unreadable
\* files contribute nothing and leave the other files' text as it is; a
\* repeated call over the unchanged directory returns the same text.
C14_ReadableFilesInOrder ==
    (Collected /\ ~disk.tf.err) =>
        LET fs == disk.tf.files
        IN  /\ Len(tfText) = TfOffset(fs, Len(fs))
            /\ \A i \in 1..Len(fs) :
                  fs[i].ok =>
                      LET from == TfOffset(fs, i - 1)
                          n    == Len(fs[i].content)
                      IN  /\ SubSeq(tfText, from + 1, from + n) = fs[i].content
                          /\ tfText[from + n + 1] = "\n"
            /\ tfText = getAllResourcesFromTfFiles(Glob(FALSE, SelectSeq(fs, LAMBDA f : f.ok)))
            /\ getAllResourcesFromTfFiles(disk.tf) = tfText

\* A directory with an unreadable file before a readable one has been
\* collected into a text.
C14_Witness ==
    /\ Collected
    /\ ~disk.tf.err
    /\ \E i, j \in 1..Len(disk.tf.files) :
          i < j /\ ~disk.tf.files[i].ok /\ disk.tf.files[j].ok
    /\ tfText # <<>>

----------------------------------------------------------------------------
(* The phases of a cycle *)

\* The phase the orchestrator is in: 1 Collecting, 2 Dispatching,
\* 3 Aggregating, 4 Done; 0 when the process has exited.
Phase(p) ==
    CASE p \in {"configure", "collect"}         -> 1
      [] p \in {"dispatch", "wait"}             -> 2
      [] p \in {"drain", "aggregated"}          -> 3
      [] p \in {"providerConfigure", "returned"} -> 4
      [] OTHER                                  -> 0

PhaseStep ==
    \/ pc' = "exited"
    \/ pc # "exited" /\ Phase(pc') \in {Phase(pc), Phase(pc) + 1}

Done(t) == call[t] = "done"

Emitting == diags # <<>> \/ htmlCall # "idle" \/ Phase(pc) = 4

PhaseOrder ==
    \* no task is dispatched before the collectors have returned
    /\ (\E t \in Tasks : call[t] # "idle" \/ ncalls[t] > 0) => Phase(pc) # 1
    \* only the text of a task that has returned is aggregated
    /\ discipline = "sequential" =>
          /\ \A i \in 1..Len(SeqTasks) : Done(SeqTasks[i]) <=> i < idx
          /\ answer = SeqReport(SubSeq(SeqTasks, 1, idx - 1), <<>>)
    /\ discipline = "parallel" =>
          /\ Len(results) + Len(answers) = Cardinality({t \in Tasks : Done(t)})
          /\ \A i \in 1..Len(answers) : \E t \in Tasks : Done(t) /\ answers[i] = ret[t]
    \* the emitter gets the report after every task's text is in it
    /\ Emitting =>
          /\ \A t \in Dispatched : Done(t)
          /\ discipline = "sequential" => answer = SeqReport(SeqTasks, <<>>)
          /\ discipline = "parallel" =>
                Len(answers) = Cardinality(ParTasks) /\ answer = Join(answers, NL)

\* C15: a cycle goes through Collecting, Dispatching, Aggregating, Done in
\* that order, skipping and revisiting none: no task is dispatched before the
\* collectors have returned, a task's text is aggregated only after the task
\* returned, and the emitter gets the report only after every task's text
\* has been aggregated.
C15_PhasesInOrder == []PhaseOrder /\ [][PhaseStep]_vars

\* A concurrent cycle has gone through all four phases.
C15_Witness ==
    /\ pc = "returned"
    /\ discipline = "parallel"
    /\ diags # <<>>
    /\ Len(answers) = Cardinality(ParTasks)

\* C16: a cycle whose report is aggregated has dispatched each of the four
\* canonical tasks, and the report has one segment for each of them, under
\* the sequential and under the concurrent discipline.
C16_AllFourTasks ==
    Aggregated =>
        /\ \A t \in Tasks : Done(t) /\ ncalls[t] > 0
        /\ discipline = "sequential" => answer = SeqReport(TaskOrder, <<>>)
        /\ discipline = "parallel" => Len(answers) = Cardinality(Tasks)

----------------------------------------------------------------------------
(* The tasks *)

Issued(t) == call[t] # "idle"

NoReissue ==
    \A t \in Tasks : call[t] \in {"returned", "done", "hung"} => ncalls'[t] = ncalls[t]

\* C17: within a cycle each dispatched task issues exactly one
\* reasoning-agent call; a call that returned an error is not issued again,
\* neither by the task nor by the orchestrator.
C17_SingleAttempt ==
    /\ [](\A t \in Tasks : ncalls[t] = (IF Issued(t) THEN 1 ELSE 0))
    /\ [](Aggregated => \A t \in Dispatched : ncalls[t] = 1)
    /\ [][NoReissue]_vars

\* A cycle has ended in which a task's only call returned an error.
C17_Witness ==
    /\ pc = "returned"
    /\ \E t \in Dispatched : Done(t) /\ agentErr[t] /\ ncalls[t] = 1

\* The task texts of the sequential orchestrator, in invocation order.
SeqTexts == [i \in 1..Len(SeqTasks) |-> ret[SeqTasks[i]]]

\* C18: under the sequential discipline the report is the task texts in
\* invocation order joined by the separator: the separator stands between
\* consecutive segments only, not before the first nor after the last, and
\* is the same in every run.
C18_SequentialJoined ==
    (discipline = "sequential" /\ Aggregated) => answer = Join(SeqTexts, NL)

\* One serialized {type, id} pair.
SprintRecord(r) == <<"{">> \o r.Type \o <<" ">> \o r.Id \o <<"}">>

\* Inventories to tell the collected one from.
OtherInventories == {<<>>, <<[Type |-> <<"s">>, Id |-> <<"1">>]>>}

\* C19: the prompt of the inventory-diff task holds the locally declared
\* inventory as serialized {type, id} pairs: every record of the inventory
\* occurs in it, and a different inventory gives a different prompt.
C19_PromptHoldsInventory ==
    Issued(Missing) =>
        /\ \A i \in 1..Len(resources) :
              IsSubstring(SprintRecord(resources[i]), prompt[Missing])
        /\ \A rs \in OtherInventories :
              rs # resources => MissingQuestion(rs) # prompt[Missing]

----------------------------------------------------------------------------
(* The remote backend *)

\* C21: when the remote listing is empty or the remote-listing call fails,
\* the inventory-diff task contributes nothing to the report, whatever the
\* local inventory, the empty one included.
C21_NoBlocksOnFailedListing ==
    (call[Missing] \in {"returned", "done"} /\ (agentErr[Missing] \/ remote = {}))
        => ret[Missing] = <<>>

\* C22: no step of a cycle changes the remote inventory: the tool-augmented
\* call and its listing invocations only read the backend.
C22_RemoteUnchanged == [][remote' = remote]_vars

\* The tool-augmented call has returned after listing a non-empty remote
\* inventory in several invocations.
C22_Witness ==
    /\ call[Missing] = "done"
    /\ listings = MaxListings
    /\ remote # {}

----------------------------------------------------------------------------
(* The rendering path *)

\* The document could not be written.
NotWritten == htmlCall = "done" /\ link = FailedToSave

CarriesLink == \E i \in 1..Len(diags) : IsSubstring(<<"file://">>, diags[i].Detail)

\* C23: on the rendering path a rendering failure makes the diagnostic carry
\* the raw aggregated text instead of a link, and a link is emitted only
\* when the document was written; stated here for the failure the code can
\* see, the document that cannot be written.
C23_RenderFailureFallsBack ==
    htmlCall = "done" =>
        /\ NotWritten => diags = createResponse(answer)
        /\ CarriesLink => ~NotWritten

----------------------------------------------------------------------------
(* The prompts *)

\* Texts to tell an input from.
OtherTexts == {<<>>, <<"z">>}

\* C24: the deprecated-resource-replacement prompt is built from the
\* configuration text and the documentation text, the new-feature-adoption
\* prompt from the configuration text, the feature list and the documentation
\* text: each input occurs in its prompt, and another value of the input
\* gives another prompt.
C24_PromptsHoldInputs ==
    /\ Issued(Replace) =>
          /\ IsSubstring(tfText, prompt[Replace])
          /\ IsSubstring(docs, prompt[Replace])
          /\ \A x \in OtherTexts :
                /\ x # tfText => ReplaceQuestion(x, docs) # prompt[Replace]
                /\ x # docs => ReplaceQuestion(tfText, x) # prompt[Replace]
    /\ Issued(Features) =>
          /\ IsSubstring(tfText, prompt[Features])
          /\ IsSubstring(getNewFeatures, prompt[Features])
          /\ IsSubstring(docs, prompt[Features])
          /\ \A x \in OtherTexts :
                /\ x # tfText =>
                      FeaturesQuestion(docs, getNewFeatures, x, ReleaseNotesText)
                          # prompt[Features]
                /\ x # getNewFeatures =>
                      FeaturesQuestion(docs, x, tfText, ReleaseNotesText) # prompt[Features]
                /\ x # docs =>
                      FeaturesQuestion(x, getNewFeatures, tfText, ReleaseNotesText)
                          # prompt[Features]

\* The prompt of task t as a function of the collected inputs alone.
PromptFromInputs(t) ==
    CASE t = Missing  -> MissingQuestion(resources)
      [] t = General  -> GeneralQuestion(tfText)
      [] t = Replace  -> ReplaceQuestion(tfText, docs)
      [] t = Features -> FeaturesQuestion(docs, getNewFeatures, tfText, ReleaseNotesText)

Returned(t) == call[t] \in {"returned", "done"}

\* C25: the tasks of a cycle are independent: the prompt and the dispatch of
\* a task depend on the collected inputs only, never on what another task's
\* call returned, and a task's segment is its own response; so another
\* response for one task leaves the other tasks' prompts and segments as
\* they are.
C25_TasksIndependent ==
    /\ \A t \in Tasks :
          /\ Issued(t) => prompt[t] = PromptFromInputs(t)
          /\ Returned(t) => ret[t] = agentText[t]
    /\ Aggregated => \A t \in Dispatched : Issued(t) /\ Returned(t)

\* A sequential cycle has been aggregated in which the first task's call
\* returned a text with an error and a later task returned another text.
C25_Witness ==
    /\ Aggregated
    /\ discipline = "sequential"
    /\ agentErr[Missing]
    /\ ret[Missing] # <<>>
    /\ \E t \in Dispatched \ {Missing} : ret[t] # ret[Missing] /\ ~agentErr[t]

----------------------------------------------------------------------------
(* The declared inventory *)

\* C26: the records collected from a state snapshot never hold the same
\* (type, id) pair twice, also when the snapshot lists the same type and id
\* in several resources or instances.
C26_UniqueTypeId ==
    Collected =>
        \A i, j \in 1..Len(resources) : resources[i] = resources[j] => i = j

----------------------------------------------------------------------------
(* The result buffer of runDiagnosticsParallel *)

\* The slot of a task: its place in the declaration order.
Slot(t) == CHOOSE i \in 1..Len(TaskOrder) : TaskOrder[i] = t

\* C27: under the concurrent discipline the result buffer has one slot per
\* task, written by that task only; the place of a task's result in the
\* buffer is its slot, whatever the interleaving, not its place in the
\* arrival order.
C27_OwnSlotPerTask ==
    discipline = "parallel" =>
        /\ Len(sendOrder) <= Cardinality(ParTasks)
        /\ \A i, j \in 1..Len(sendOrder) : sendOrder[i] = sendOrder[j] => i = j
        /\ \A i \in 1..Len(sendOrder) : i = Slot(sendOrder[i])

SomeCallHung == \E t \in Tasks : call[t] = "hung"

NoSendBlocks ==
    \A t \in Tasks : call[t] = "returned" => ENABLED GoSend(t)

ClosedAfterLastSend ==
    closed => \A t \in ParTasks : Done(t)

\* C28: runDiagnosticsParallel is deadlock-free: the channel has as many
\* places as there are senders and each task sends once, so no send blocks
\* although nothing receives before the barrier; when every task function
\* returns, the barrier is passed, the channel is closed after the last
\* send only, and the drain loop ends.
C28_DeadlockFree ==
    /\ [](NoSendBlocks /\ ClosedAfterLastSend /\ Len(results) <= ChanCap)
    /\ <>(pc = "aggregated" \/ pc = "exited" \/ SomeCallHung)

\* The channel has been full before the barrier was passed.
C28_Witness ==
    /\ pc = "wait"
    /\ Len(results) = ChanCap
    /\ ~closed

\* The orders in which the four goroutines can arrive.
Arrivals ==
    {p \in [1..Cardinality(ParTasks) -> ParTasks] :
        \A i, j \in 1..Cardinality(ParTasks) : p[i] = p[j] => i = j}

\* C29: whatever the interleaving, the report of runDiagnosticsParallel is
\* made of four segments that are a permutation of the four task texts: each
\* text once, none lost, doubled or merged, and three separators.
C29_PermutationOfTexts ==
    (discipline = "parallel" /\ Aggregated) =>
        /\ Len(answers) = 4
        /\ \E p \in Arrivals :
              /\ answers = [i \in 1..4 |-> ret[p[i]]]
              /\ answer = Join([i \in 1..4 |-> ret[p[i]]], NL)
        /\ Len(answer) = SumLen(ParTasks) + 3

\* A concurrent report of four different-looking arrivals: the first task
\* to be declared arrived last and the texts are not all the same.
C29_Witness ==
    /\ discipline = "parallel"
    /\ Aggregated
    /\ sendOrder[4] = Missing
    /\ \E t \in ParTasks : ret[t] # ret[Missing]

----------------------------------------------------------------------------
(* The execution directory *)

LastSlash(q) ==
    LET S == {i \in 1..Len(q) : q[i] = Slash} IN IF S = {} THEN 0 ELSE CHOOSE i \in S : \A j \in S : j <= i

\* The directory a path lies in, made absolute, and the name of its file.
DirOf(q) ==
    LET d == Clean(SubSeq(q, 1, LastSlash(q)))
    IN  IF d = Dot THEN Cwd
        ELSE IF d[1] = Slash THEN d
        ELSE FilepathJoin(Cwd, d)

BaseOf(q) == SubSeq(q, LastSlash(q) + 1, Len(q))

\* C30: for every execution directory, with or without a trailing separator,
\* the state snapshot that is read is the file terraform.tfstate in the
\* directory the configuration files are globbed from, which is also the
\* directory the rendered document is written to.
C30_SnapshotInExecutionDir ==
    /\ Phase(pc) > 1 =>
          /\ BaseOf(paths.state) = <<"terraform.tfstate">>
          /\ DirOf(paths.state) = DirOf(paths.glob)
    /\ htmlCall = "done" => DirOf(paths.html) = DirOf(paths.glob)

====
